---- MODULE Spec2Model ----
(***************************************************************************)
(* GitlabCIClient (src/src/api/GitlabCIClient.ts): one accessor call in    *)
(* flight at a time.  The discovery collaborator and the HTTP server are   *)
(* the environment: getBaseUrl resolves or rejects, fetch resolves with a  *)
(* status and a body or rejects.  Every await of the client is a position  *)
(* (pc) of the running call.                                               *)
(*                                                                         *)
(* JavaScript values are tagged records: Null, Undefined, Str(s), Num(n),  *)
(* Arr(<<...>>), Obj(name).  Strings the code cuts or encodes (filePath,   *)
(* username, paths, query values) are sequences of pieces, one piece per   *)
(* character where the code looks at characters.                           *)
(***************************************************************************)
EXTENDS Integers, Sequences, FiniteSets, TLC

VARIABLES
    config,     \* the fields set by the constructor: proxyPath, codeOwnersPath
    op,         \* the accessor in flight and its arguments
    pc,         \* "idle" | "discover" | "fetch" | "response" | "returned" | "done"
    stage,      \* which callApi of the accessor is awaited
    req,        \* arguments of the callApi in flight: path, query
    response,   \* the Response fetch resolved with, until callApi has read it
    lastStatus, \* status of the last Response callApi read (0: none yet)
    ret,        \* value callApi returned, until the accessor has read it
    data,       \* the accessor's first fetched list (pipelineObjects, issuesObject, contributorsData)
    i,          \* loop index of getUserProfilesData
    log,        \* discovery failures and GETs issued by the call in flight, in order
    outcome     \* how the accessor's promise settled

vars == <<config, op, pc, stage, req, response, lastStatus, ret, data, i, log, outcome>>

\* ---------------------------------------------------------------- bounds
MaxList == 2        \* elements of a pipeline / issue / merge-request list
MaxContrib == 2     \* contributors in a contributors list
MaxUsers == 2       \* entries of a user-search result
MaxPathLen == 5     \* characters of a filePath argument
MaxNameLen == 3     \* characters of a username argument
MaxCount == 1       \* largest per_page count supplied

\* ---------------------------------------------------------------- values
Null == [t |-> "null"]
Undefined == [t |-> "undefined"]
Str(s) == [t |-> "string", v |-> s]
Num(n) == [t |-> "number", v |-> n]
Arr(l) == [t |-> "array", v |-> l]
Obj(n) == [t |-> "object", name |-> n]
None == [t |-> "none"]

SeqsUpTo(S, n) == UNION {[1..k -> S] : k \in 0..n}

ProjectIDs == {"42"}
ProjectNames == {"alpha"}
Names == {"n1", "n2"}
Avatars == {"a1", "a2"}
PathChars == {".", "/", "O", " "}
NameChars == {"@", "h"}
Statuses == {200, 401, 404, 500}
ProxyBase == "http://backstage/api/proxy"

EmailOf(n) == IF n = "n1" THEN "e1" ELSE "e2"

Contributors == {[name |-> n, email |-> EmailOf(n), avatar_url |-> Undefined] : n \in Names}
UserProfiles == {[t |-> "object", name |-> n, avatar_url |-> Str(a)] : n \in Names, a \in Avatars}
Items(n) == [k \in 1..n |-> [id |-> k, project_name |-> Undefined]]

\* A response body: JSON text (val is what JSON.parse gives) or text that is no JSON.
JsonBody(v) == [type |-> "json", val |-> v]
TextBody(s) == [type |-> "text", text |-> s]
FileTexts == {"", "* @alice"}
NotJson == TextBody("<html>")
ErrorBodies == {NotJson, JsonBody([t |-> "object", message |-> "not found"])}

\* ---------------------------------------------------------------- strings
\* String.prototype.startsWith
startsWith(s, prefix) ==
    /\ Len(s) >= Len(prefix)
    /\ SubSeq(s, 1, Len(prefix)) = prefix

\* String.prototype.slice(n)
slice(s, n) == SubSeq(s, n + 1, Len(s))

\* encodeURI: reserved and unreserved characters are kept, a space is escaped.
encodeURIChar(c) == IF c = " " THEN "%20" ELSE c
encodeURI(s) == [k \in 1..Len(s) |-> encodeURIChar(s[k])]

\* encodeURIComponent: also escapes the reserved characters.
encodeURIComponentChar(c) ==
    CASE c = " " -> "%20"
      [] c = "/" -> "%2F"
      [] c = "@" -> "%40"
      [] OTHER -> c
encodeURIComponent(s) == [k \in 1..Len(s) |-> encodeURIComponentChar(s[k])]

\* application/x-www-form-urlencoded serialisation of one name or value.
formEncodeChar(c) ==
    CASE c = " " -> "+"
      [] c = "/" -> "%2F"
      [] c = "@" -> "%40"
      [] OTHER -> c
formEncode(s) == [k \in 1..Len(s) |-> formEncodeChar(s[k])]

\* The string URLSearchParams makes of a value of the init record.
ToUSVString(v) ==
    CASE v.t = "string" -> v.v
      [] v.t = "number" -> <<ToString(v.v)>>
      [] v.t = "undefined" -> <<"undefined">>
      [] v.t = "null" -> <<"null">>

\* new URLSearchParams(query).toString(): one name=value pair per own property
\* of query, in insertion order.  query is a sequence of [k, v] records.
URLSearchParamsToString(query) ==
    [n \in 1..Len(query) |->
        [k |-> formEncode(<<query[n].k>>), v |-> formEncode(ToUSVString(query[n].v))]]

\* lines 48-53: the URL callApi fetches
ApiUrl(base, path, query) ==
    [apiUrl |-> <<base, config.proxyPath>>,
     path |-> path,
     search |-> URLSearchParamsToString(query)]

\* Response.json(): the parsed body, or a SyntaxError when the body is no JSON.
ResponseJson(body) ==
    IF body.type = "json"
    THEN [threw |-> FALSE, val |-> body.val]
    ELSE [threw |-> TRUE, val |-> Undefined]

\* lines 54-57 with line 57 throwing instead of returning null
callApiResult_ThrowOnError(status, body) ==
    IF status = 200
    THEN ResponseJson(body)
    ELSE [threw |-> TRUE, val |-> Undefined]

\* lines 54-57 with the return of line 55 left out
callApiResult_NoReturn(status, body) ==
    IF status = 200 /\ ResponseJson(body).threw
    THEN ResponseJson(body)
    ELSE [threw |-> FALSE, val |-> Null]

\* lines 54-57: what callApi returns for a Response
callApiResult(status, body) ==
    IF status = 200
    THEN ResponseJson(body)
    ELSE [threw |-> FALSE, val |-> Null]

\* ---------------------------------------------------------------- helpers of the accessors
\* a?.name
OptName(a) == IF a.t \in {"null", "undefined"} THEN Undefined ELSE a.name

\* lines 72-74, 94-96 with the assignment left out for the last element
Annotate_SkipLast(list, projectObj) ==
    [k \in 1..Len(list) |->
        IF k < Len(list) THEN [list[k] EXCEPT !.project_name = OptName(projectObj)]
        ELSE list[k]]

\* lines 72-74, 94-96: forEach element, element.project_name = projectObj?.name
Annotate(list, projectObj) ==
    [k \in 1..Len(list) |-> [list[k] EXCEPT !.project_name = OptName(projectObj)]]

\* lines 122-127: the forEach over the search result assigns on every entry whose
\* name equals the contributor's, so the value left is that of the last such entry.
RECURSIVE AvatarAfter(_, _, _)
AvatarAfter(userProfile, contributor, k) ==
    IF k > Len(userProfile) THEN contributor
    ELSE AvatarAfter(userProfile,
                     IF userProfile[k].name = contributor.name
                     THEN [contributor EXCEPT !.avatar_url = userProfile[k].avatar_url]
                     ELSE contributor,
                     k + 1)

\* lines 121-128: contributorsData[i] after the search result has been read
Enrich(contributor, userProfile) ==
    IF userProfile.t = "null" THEN contributor
    ELSE AvatarAfter(userProfile.v, contributor, 1)

\* line 213 applied until no './' is left
NormalizeFilePath_Repeated(filePath) ==
    LET RECURSIVE strip(_)
        strip(s) == IF startsWith(s, <<".", "/">>) THEN strip(slice(s, 2)) ELSE s
    IN strip(filePath)

\* line 213: if (filePath.startsWith('./')) filePath = filePath.slice(2)
NormalizeFilePath(filePath) ==
    IF startsWith(filePath, <<".", "/">>) THEN slice(filePath, 2) ELSE filePath

\* lines 226-228 with the slice left out
NormalizeUsername_Keep(username) == username

\* lines 226-228: if (username.startsWith('@')) username = username.slice(1)
NormalizeUsername(username) ==
    IF startsWith(username, <<"@">>) THEN slice(username, 1) ELSE username

\* line 221 without the || ''
OrEmpty_Raw(codeOwnersStr) ==
    IF codeOwnersStr.t = "string" THEN codeOwnersStr.v ELSE "null"

\* line 221: codeOwnersStr || ''
OrEmpty(codeOwnersStr) ==
    IF codeOwnersStr.t = "string" /\ codeOwnersStr.v # "" THEN codeOwnersStr.v ELSE ""

\* components/utils parseCodeOwners: one entry per rule of the text, none for ''.
parseCodeOwners(text) == IF text = "" THEN <<>> ELSE <<[rule |-> text]>>

\* lines 229-231: (await callApi(...))?.[0]
FirstOf(a) ==
    IF a.t \in {"null", "undefined"} THEN Undefined
    ELSE IF a.v = <<>> THEN Undefined ELSE a.v[1]

\* ---------------------------------------------------------------- arguments
FilePaths == SeqsUpTo(PathChars, MaxPathLen)
Usernames == SeqsUpTo(NameChars, MaxNameLen)
Branches == {Undefined, Str(<<"main">>)}
Slugs == {Undefined, Str(<<>>), Str(<<"g", "/", "p">>)}
Counts == {Undefined} \cup {Num(n) : n \in 1..MaxCount}

\* lines 27-42: the constructor's defaults
DefaultProxyPath(proxyPath) == IF proxyPath = "" THEN "/gitlabci" ELSE proxyPath
DefaultCodeOwnersPath(codeOwnersPath) ==
    IF codeOwnersPath = <<>> THEN <<"CODEOWNERS">> ELSE codeOwnersPath

\* ---------------------------------------------------------------- the environment's bodies
ListBodies == {JsonBody(Arr(Items(n))) : n \in 0..MaxList}
ObjectBodies == {JsonBody(Obj(Str(n))) : n \in ProjectNames}
ContributorBodies == {JsonBody(Arr(l)) : l \in SeqsUpTo(Contributors, MaxContrib)}
UserBodies == {JsonBody(Arr(l)) : l \in SeqsUpTo(UserProfiles, MaxUsers)}
FileBodies == {TextBody(x) : x \in FileTexts} \cup {JsonBody(Str("")), JsonBody(Str("* @bob"))}

\* The bodies a 200 response to the request in flight may carry.
OkBodies ==
    {NotJson} \cup
    CASE op.name \in {"getPipelineSummary", "getIssuesSummary"} /\ stage = "list" -> ListBodies
      [] op.name \in {"getMergeRequestsSummary", "getMergeRequestsStatusSummary"} -> ListBodies
      [] op.name = "getContributorsSummary" /\ stage = "list" -> ContributorBodies
      [] op.name = "getContributorsSummary" /\ stage = "user" -> UserBodies
      [] op.name = "getUserDetail" -> UserBodies
      [] op.name = "getCodeOwners" -> FileBodies
      [] OTHER -> ObjectBodies

\* ---------------------------------------------------------------- settling
Returned(v) == [kind |-> "return", val |-> v]
Pending == [kind |-> "pending"]

\* a rejection caught and turned into an absent result
Rejected_Swallowed(err) == [kind |-> "return", val |-> Null]

\* No accessor and no line of callApi catches: a rejected await rejects the
\* accessor's promise with the same error.
Rejected(err) == [kind |-> "throw", err |-> err]

Init ==
    /\ config \in {[proxyPath |-> DefaultProxyPath(pp), codeOwnersPath |-> DefaultCodeOwnersPath(cp)] :
                    pp \in {"", "/gl"}, cp \in {<<>>, <<"O">>}}
    /\ op = [name |-> "none"]
    /\ pc = "idle"
    /\ stage = "none"
    /\ req = None
    /\ response = None
    /\ lastStatus = 0
    /\ ret = None
    /\ data = None
    /\ i = 0
    /\ log = <<>>
    /\ outcome = Pending

\* An accessor is entered and reaches its first callApi(path, query).
Enter(o, st, path, query) ==
    /\ op' = o
    /\ stage' = st
    /\ req' = [path |-> path, query |-> query]
    /\ pc' = "discover"
    /\ response' = None
    /\ lastStatus' = 0
    /\ ret' = None
    /\ data' = None
    /\ i' = 0
    /\ log' = <<>>
    /\ outcome' = Pending
    /\ UNCHANGED config

\* The accessor reaches a further callApi(path, query).
Again(st, path, query) ==
    /\ stage' = st
    /\ req' = [path |-> path, query |-> query]
    /\ pc' = "discover"
    /\ ret' = None
    /\ UNCHANGED <<config, op, response, lastStatus, log, outcome>>

\* The accessor returns v.
Finish(v) ==
    /\ pc' = "done"
    /\ outcome' = Returned(v)
    /\ ret' = None
    /\ req' = None
    /\ UNCHANGED <<config, op, stage, response, lastStatus, log>>

\* ---------------------------------------------------------------- callApi, lines 44-58
\* line 48: discoveryApi.getBaseUrl('proxy') resolves; lines 51-53: the GET is issued
getBaseUrl_resolve ==
    /\ pc = "discover"
    /\ pc' = "fetch"
    /\ log' = Append(log, [ev |-> "GET", query |-> req.query,
                           url |-> ApiUrl(ProxyBase, req.path, req.query)])
    /\ UNCHANGED <<config, op, stage, req, response, lastStatus, ret, data, i, outcome>>

\* line 48: discoveryApi.getBaseUrl('proxy') rejects
getBaseUrl_reject ==
    /\ pc = "discover"
    /\ pc' = "done"
    /\ log' = Append(log, [ev |-> "discoveryFailed"])
    /\ outcome' = Rejected("discovery")
    /\ req' = None
    /\ UNCHANGED <<config, op, stage, response, lastStatus, ret, data, i>>

\* line 51: fetch resolves with a Response
fetch_resolve ==
    /\ pc = "fetch"
    /\ \E status \in Statuses :
         \E body \in (IF status = 200 THEN OkBodies ELSE ErrorBodies) :
            response' = [status |-> status, body |-> body]
    /\ pc' = "response"
    /\ UNCHANGED <<config, op, stage, req, lastStatus, ret, data, i, log, outcome>>

\* line 51: fetch rejects (network error)
fetch_reject ==
    /\ pc = "fetch"
    /\ pc' = "done"
    /\ outcome' = Rejected("network")
    /\ req' = None
    /\ UNCHANGED <<config, op, stage, response, lastStatus, ret, data, i, log>>

\* lines 54-57: callApi reads the Response and returns or throws
callApi_return ==
    /\ pc = "response"
    /\ LET r == callApiResult(response.status, response.body) IN
         IF r.threw
         THEN /\ pc' = "done"
              /\ outcome' = Rejected("SyntaxError")
              /\ req' = None
              /\ ret' = None
         ELSE /\ pc' = "returned"
              /\ ret' = r.val
              /\ UNCHANGED <<outcome, req>>
    /\ lastStatus' = response.status
    /\ response' = None
    /\ UNCHANGED <<config, op, stage, data, i, log>>

\* ---------------------------------------------------------------- accessors
\* a JavaScript truth test of a callApi result
Truthy(v) == v.t \in {"array", "object"} \/ (v.t = "string" /\ v.v # "" /\ v.v # <<>>)

ProjectPath(projectID) == <<"projects/", projectID>>

\* lines 60-66
getPipelineSummary ==
    /\ pc = "idle"
    /\ \E projectID \in ProjectIDs :
        Enter([name |-> "getPipelineSummary", projectID |-> projectID], "list",
              <<"projects/", projectID, "/pipelines">>, <<>>)

\* lines 67-78
getPipelineSummary_resume ==
    /\ pc = "returned"
    /\ op.name = "getPipelineSummary"
    /\ IF stage = "list"
       THEN /\ data' = ret
            /\ Again("project", ProjectPath(op.projectID), <<>>)
       ELSE /\ data' = IF Truthy(data) THEN Arr(Annotate(data.v, ret)) ELSE data
            /\ Finish([getPipelinesData |-> data'])
    /\ UNCHANGED i

\* lines 81-87
getIssuesSummary ==
    /\ pc = "idle"
    /\ \E projectId \in ProjectIDs :
        Enter([name |-> "getIssuesSummary", projectID |-> projectId], "list",
              <<"projects/", projectId, "/issues">>, <<>>)

\* lines 89-101
getIssuesSummary_resume ==
    /\ pc = "returned"
    /\ op.name = "getIssuesSummary"
    /\ IF stage = "list"
       THEN /\ data' = ret
            /\ Again("project", ProjectPath(op.projectID), <<>>)
       ELSE /\ data' = IF Truthy(data) THEN Arr(Annotate(data.v, ret)) ELSE data
            /\ Finish([getIssuesData |-> data'])
    /\ UNCHANGED i

\* lines 104-108
getProjectName ==
    /\ pc = "idle"
    /\ \E projectID \in ProjectIDs :
        Enter([name |-> "getProjectName", projectID |-> projectID], "only",
              ProjectPath(projectID), <<>>)

\* line 109
getProjectName_resume ==
    /\ pc = "returned"
    /\ op.name = "getProjectName"
    /\ Finish(OptName(ret))
    /\ UNCHANGED <<data, i>>

\* lines 133-139
getMergeRequestsSummary ==
    /\ pc = "idle"
    /\ \E projectID \in ProjectIDs :
        Enter([name |-> "getMergeRequestsSummary", projectID |-> projectID], "only",
              <<"projects/", projectID, "/merge_requests">>, <<>>)

\* lines 140-142
getMergeRequestsSummary_resume ==
    /\ pc = "returned"
    /\ op.name = "getMergeRequestsSummary"
    /\ Finish([getMergeRequestsData |-> ret])
    /\ UNCHANGED <<data, i>>

\* line 151: the query record { per_page: count }
PerPageQuery(count) == <<[k |-> "per_page", v |-> count]>>

\* lines 145-152
getMergeRequestsStatusSummary ==
    /\ pc = "idle"
    /\ \E projectID \in ProjectIDs, count \in Counts :
        Enter([name |-> "getMergeRequestsStatusSummary", projectID |-> projectID, count |-> count],
              "only", <<"projects/", projectID, "/merge_requests">>, PerPageQuery(count))

\* lines 153-155
getMergeRequestsStatusSummary_resume ==
    /\ pc = "returned"
    /\ op.name = "getMergeRequestsStatusSummary"
    /\ Finish([getMergeRequestsStatusData |-> ret])
    /\ UNCHANGED <<data, i>>

\* lines 116-120: the user search for contributorsData[k] (k counts from 0)
UserSearchQuery(contributorsData, k) ==
    <<[k |-> "search", v |-> Str(<<contributorsData.v[k + 1].email>>)]>>

\* line 115: contributorsData && i < contributorsData.length
LoopGoesOn(contributorsData, k) == Truthy(contributorsData) /\ k < Len(contributorsData.v)

\* lines 158-164
getContributorsSummary ==
    /\ pc = "idle"
    /\ \E projectID \in ProjectIDs :
        Enter([name |-> "getContributorsSummary", projectID |-> projectID], "list",
              <<"projects/", projectID, "/repository/contributors">>,
              <<[k |-> "sort", v |-> Str(<<"desc">>)]>>)

\* lines 165-170 and getUserProfilesData, lines 112-131
getContributorsSummary_resume ==
    /\ pc = "returned"
    /\ op.name = "getContributorsSummary"
    /\ IF stage = "list"
       THEN /\ data' = ret
            /\ i' = 0
       ELSE /\ data' = Arr([data.v EXCEPT ![i + 1] = Enrich(@, ret)])
            /\ i' = i + 1
    /\ IF LoopGoesOn(data', i')
       THEN Again("user", <<"users">>, UserSearchQuery(data', i'))
       ELSE Finish([getContributorsData |-> data'])

\* lines 173-179
getLanguagesSummary ==
    /\ pc = "idle"
    /\ \E projectID \in ProjectIDs :
        Enter([name |-> "getLanguagesSummary", projectID |-> projectID], "only",
              <<"projects/", projectID, "/languages">>, <<>>)

\* lines 180-182
getLanguagesSummary_resume ==
    /\ pc = "returned"
    /\ op.name = "getLanguagesSummary"
    /\ Finish([getLanguagesData |-> ret])
    /\ UNCHANGED <<data, i>>

\* lines 185-192: with a falsy slug no request is made and undefined is returned
getProjectDetails ==
    /\ pc = "idle"
    /\ \E projectSlug \in Slugs :
        IF Truthy(projectSlug)
        THEN Enter([name |-> "getProjectDetails", projectSlug |-> projectSlug], "only",
                   <<"projects/">> \o encodeURIComponent(projectSlug.v), <<>>)
        ELSE /\ op' = [name |-> "getProjectDetails", projectSlug |-> projectSlug]
             /\ stage' = "only"
             /\ pc' = "done"
             /\ outcome' = Returned(Undefined)
             /\ req' = None
             /\ response' = None
             /\ lastStatus' = 0
             /\ ret' = None
             /\ data' = None
             /\ i' = 0
             /\ log' = <<>>
             /\ UNCHANGED config

\* line 193
getProjectDetails_resume ==
    /\ pc = "returned"
    /\ op.name = "getProjectDetails"
    /\ Finish(ret)
    /\ UNCHANGED <<data, i>>

\* lines 196-203
retryPipelineBuild ==
    /\ pc = "idle"
    /\ \E projectID \in ProjectIDs, pipelineID \in {"7"} :
        Enter([name |-> "retryPipelineBuild", projectID |-> projectID, pipelineID |-> pipelineID],
              "only", <<"projects/", projectID, "/pipelines/", pipelineID, "/retry">>, <<>>)

\* line 204
retryPipelineBuild_resume ==
    /\ pc = "returned"
    /\ op.name = "retryPipelineBuild"
    /\ Finish(ret)
    /\ UNCHANGED <<data, i>>

\* lines 213-216: the resource path of the CODEOWNERS file
CodeOwnersPath(projectID, filePath) ==
    <<"projects/", projectID, "/repository/files/">>
        \o encodeURI(NormalizeFilePath(filePath)) \o <<"/raw">>

\* lines 207-218: branch and filePath take their defaults when not supplied
getCodeOwners ==
    /\ pc = "idle"
    /\ \E projectID \in ProjectIDs, branchArg \in Branches,
       filePathArg \in {Undefined} \cup {Str(f) : f \in FilePaths} :
        LET branch == IF branchArg.t = "undefined" THEN Str(<<"HEAD">>) ELSE branchArg
            filePath == IF filePathArg.t = "undefined" THEN config.codeOwnersPath
                        ELSE filePathArg.v
        IN Enter([name |-> "getCodeOwners", projectID |-> projectID,
                  branch |-> branchArg, filePath |-> filePathArg],
                 "only", CodeOwnersPath(projectID, filePath), <<[k |-> "ref", v |-> branch]>>)

\* lines 220-222
getCodeOwners_resume ==
    /\ pc = "returned"
    /\ op.name = "getCodeOwners"
    /\ Finish([getCodeOwners |-> parseCodeOwners(OrEmpty(ret))])
    /\ UNCHANGED <<data, i>>

\* line 230: the query record { username }
UsernameQuery(username) == <<[k |-> "username", v |-> Str(NormalizeUsername(username))]>>

\* lines 225-230
getUserDetail ==
    /\ pc = "idle"
    /\ \E username \in Usernames :
        Enter([name |-> "getUserDetail", username |-> username], "only",
              <<"users">>, UsernameQuery(username))

\* lines 229-235
getUserDetail_resume ==
    /\ pc = "returned"
    /\ op.name = "getUserDetail"
    /\ LET userDetail == FirstOf(ret) IN
         IF userDetail.t = "undefined"
         THEN /\ pc' = "done"
              /\ outcome' = [kind |-> "throw", err |-> "Error",
                             message |-> <<"user ">> \o NormalizeUsername(op.username)
                                             \o <<" does not exist">>]
              /\ ret' = None
              /\ req' = None
              /\ UNCHANGED <<config, op, stage, response, lastStatus, log>>
         ELSE Finish(userDetail)
    /\ UNCHANGED <<data, i>>

Next ==
    \/ getPipelineSummary
    \/ getPipelineSummary_resume
    \/ getIssuesSummary
    \/ getIssuesSummary_resume
    \/ getProjectName
    \/ getProjectName_resume
    \/ getMergeRequestsSummary
    \/ getMergeRequestsSummary_resume
    \/ getMergeRequestsStatusSummary
    \/ getMergeRequestsStatusSummary_resume
    \/ getContributorsSummary
    \/ getContributorsSummary_resume
    \/ getLanguagesSummary
    \/ getLanguagesSummary_resume
    \/ getProjectDetails
    \/ getProjectDetails_resume
    \/ retryPipelineBuild
    \/ retryPipelineBuild_resume
    \/ getCodeOwners
    \/ getCodeOwners_resume
    \/ getUserDetail
    \/ getUserDetail_resume
    \/ getBaseUrl_resolve
    \/ getBaseUrl_reject
    \/ fetch_resolve
    \/ fetch_reject
    \/ callApi_return

Spec == Init /\ [][Next]_vars

\* ---------------------------------------------------------------- properties
Gets == SelectSeq(log, LAMBDA e : e.ev = "GET")
Contrib == op.name = "getContributorsSummary"

\* The avatar_url of the first entry of a search result that bears the name,
\* absent when the search gave no data or no entry bears it.
RECURSIVE FirstMatchFrom(_, _, _)
FirstMatchFrom(entries, name, k) ==
    IF k > Len(entries) THEN Undefined
    ELSE IF entries[k].name = name THEN entries[k].avatar_url
    ELSE FirstMatchFrom(entries, name, k + 1)
FirstMatchAvatar(result, name) ==
    IF result.t = "null" THEN Undefined ELSE FirstMatchFrom(result.v, name, 1)

\* C1: when getUserProfilesData has read the search result of contributor i, that
\* contributor's avatar_url is the avatar_url of the first entry of the result whose
\* name equals the contributor's name, and absent when there is no data or no such entry.
C1_FirstMatchWins ==
    [][(Contrib /\ stage = "user" /\ pc = "returned")
        => data'.v[i + 1].avatar_url = FirstMatchAvatar(ret, data.v[i + 1].name)]_vars

C3_NullUnlessOk ==
    [][pc = "response" =>
        /\ response.status # 200 => (pc' = "returned" /\ ret' = Null /\ outcome' = Pending)
        /\ (pc' = "returned" /\ ret'.t # "null")
              => (response.status = 200 /\ response.body.type = "json"
                  /\ ret' = response.body.val)
        /\ (response.status = 200 /\ response.body.type = "json")
              => (pc' = "returned" /\ ret' = response.body.val)]_vars

\* callApi has returned null for a 500.
C3_Witness == pc = "returned" /\ ret.t = "null" /\ lastStatus = 500

C5_RawFileDecodedAsText ==
    [][(op.name = "getCodeOwners" /\ pc = "response" /\ response.status = 200
          /\ response.body.type = "text")
        => (pc' = "returned" /\ ret' = Str(response.body.text))]_vars

\* C6: getUserDetail searches users by username with exactly one leading '@' cut
\* off the handle, so a handle '@' + h (h not starting with '@') issues the query
\* that h issues; it returns the first entry of a non-empty search result and
\* raises an error when the result is empty or the search gave no data.
C6_UserDetail ==
    /\ [](op.name = "getUserDetail" =>
            \A n \in 1..Len(log) : log[n].ev = "GET" =>
                LET u == op.username
                    at == u # <<>> /\ u[1] = "@"
                    h == IF at THEN Tail(u) ELSE u
                IN /\ n = 1
                   /\ log[n].url.path = <<"users">>
                   /\ log[n].query = <<[k |-> "username", v |-> Str(h)]>>
                   /\ (at /\ (h = <<>> \/ h[1] # "@"))
                         => log[n].query = UsernameQuery(h))
    /\ [][(op.name = "getUserDetail" /\ pc = "returned") =>
            /\ pc' = "done"
            /\ IF ret.t = "array" /\ ret.v # <<>>
               THEN outcome' = Returned(ret.v[1])
               ELSE outcome'.kind = "throw" /\ outcome'.err = "Error"]_vars

\* getUserDetail("@h") has returned the first candidate of its search.
C6_Witness ==
    /\ op.name = "getUserDetail" /\ op.username = <<"@", "h">>
    /\ pc = "done" /\ outcome.kind = "return"
    /\ Len(log) = 1 /\ log[1].query = <<[k |-> "username", v |-> Str(<<"h">>)]>>

\* C7: getCodeOwners cuts a leading './' off filePath once: with './' + p, p not
\* starting with './', it requests the path a call with p requests, under the same
\* query; with '././' + p it requests the path of './' + p.
C7_DotSlashStrippedOnce ==
    (op.name = "getCodeOwners" /\ op.filePath.t = "string") =>
        \A n \in 1..Len(log) : log[n].ev = "GET" =>
            LET f == op.filePath.v
                p == slice(f, 2)
                dotSlash == <<".", "/">>
                branch == IF op.branch.t = "undefined" THEN Str(<<"HEAD">>) ELSE op.branch
            IN /\ log[n].query = <<[k |-> "ref", v |-> branch]>>
               /\ (startsWith(f, dotSlash) /\ ~startsWith(p, dotSlash))
                     => log[n].url.path = CodeOwnersPath(op.projectID, p)
               /\ startsWith(f, dotSlash)
                     => log[n].url.path = <<"projects/", op.projectID, "/repository/files/">>
                                             \o encodeURI(p) \o <<"/raw">>
               /\ ~startsWith(f, dotSlash)
                     => log[n].url.path = <<"projects/", op.projectID, "/repository/files/">>
                                             \o encodeURI(f) \o <<"/raw">>

\* getCodeOwners('././O') has requested the path of './O'.
C7_Witness ==
    /\ op.name = "getCodeOwners" /\ op.filePath = Str(<<".", "/", ".", "/", "O">>)
    /\ pc = "fetch"
    /\ log[1].url.path = <<"projects/", op.projectID, "/repository/files/", ".", "/", "O", "/raw">>

\* C8: in every accessor a failed discovery call settles the call with that error,
\* and nothing (no GET, no further discovery) follows it.
C8_DiscoveryFailurePropagates ==
    \A n \in 1..Len(log) : log[n].ev = "discoveryFailed" =>
        /\ n = Len(log)
        /\ pc = "done"
        /\ outcome = [kind |-> "throw", err |-> "discovery"]

\* The discovery call of the second request of getPipelineSummary has failed.
C8_Witness ==
    /\ op.name = "getPipelineSummary"
    /\ Len(log) = 2 /\ log[1].ev = "GET" /\ log[2].ev = "discoveryFailed"

\* C9: the URL of a GET carries no parameter whose supplied value is undefined, and
\* carries the others in insertion order.
C9_UndefinedOmitted ==
    \A n \in 1..Len(log) : log[n].ev = "GET" =>
        LET kept == SelectSeq(log[n].query, LAMBDA q : q.v.t # "undefined")
        IN log[n].url.search =
              [m \in 1..Len(kept) |->
                  [k |-> formEncode(<<kept[m].k>>), v |-> formEncode(ToUSVString(kept[m].v))]]

\* C10: getPipelineSummary and getIssuesSummary request the list, then the project,
\* once each; with a fetched list every element gets the project's name as
\* project_name after a 200 and no project_name after another status, and the call
\* returns the list.
C10_ProjectName ==
    /\ [](op.name \in {"getPipelineSummary", "getIssuesSummary"} =>
            /\ Len(Gets) <= 2
            /\ Len(Gets) >= 1 =>
                  Gets[1].url.path = <<"projects/", op.projectID,
                      IF op.name = "getPipelineSummary" THEN "/pipelines" ELSE "/issues">>
            /\ Len(Gets) = 2 => Gets[2].url.path = <<"projects/", op.projectID>>
            /\ outcome.kind = "return" => Len(Gets) = 2)
    /\ [][(op.name \in {"getPipelineSummary", "getIssuesSummary"}
             /\ pc = "returned" /\ stage = "project") =>
            /\ outcome'.kind = "return"
            /\ outcome'.val = IF op.name = "getPipelineSummary"
                              THEN [getPipelinesData |-> data']
                              ELSE [getIssuesData |-> data']
            /\ data.t = "array" =>
                  /\ data'.t = "array" /\ Len(data'.v) = Len(data.v)
                  /\ \A n \in 1..Len(data.v) :
                        /\ data'.v[n].id = data.v[n].id
                        /\ data'.v[n].project_name =
                              IF lastStatus = 200 THEN ret.name ELSE Undefined]_vars

\* getIssuesSummary has returned two issues without project_name after a 404 of the project.
C10_Witness ==
    /\ op.name = "getIssuesSummary" /\ pc = "done" /\ outcome.kind = "return"
    /\ lastStatus = 404 /\ data.t = "array" /\ Len(data.v) = 2
    /\ data.v[2].project_name = Undefined

====
